---------------------------- MODULE Spec2Model ----------------------------
(***************************************************************************)
(* A model of tapestry's pattern iterators (src/src/patterns.rs) and of    *)
(* the way a grid consumes them (src/examples/life.rs).                    *)
(*                                                                         *)
(* A pattern is a pull iterator: the consumer calls next() and gets        *)
(* Some(coord) or None.  The model keeps the iterator object in `iter`,    *)
(* the value of the last next() call in `ret`, and the coordinates handed  *)
(* out so far in `emitted`.                                                *)
(***************************************************************************)
EXTENDS Integers, Sequences, FiniteSets, TLC

VARIABLES
    from,      \* the `from` argument of line(from, to), kept for reference
    iter,      \* the pattern iterator object (LineIter, or array iter + map)
    ret,       \* what the last call of next() returned
    emitted,   \* the coordinates returned as Some(..) so far, in order
    pc,        \* "new": next() not called yet; "polled": called at least once
    grid,      \* the grid a selection borrows: its dimensions and its cells
    results,   \* the results a selection has yielded so far, in order
    order,     \* the order in which grid.iter() and iter_mut() visit the cells
    neighbor_counts,  \* LifeBoard::step: the counts collected so far
    written,   \* LifeBoard::step: the number of cells written so far
    old        \* the grid as it was when the current step() was called

lifeVars == <<order, neighbor_counts, written, old>>

vars == <<from, iter, ret, emitted, pc, grid, results,
          order, neighbor_counts, written, old>>

(***************************************************************************)
(* Bounds of the model.                                                    *)
(***************************************************************************)
\* Endpoints and origins are drawn from -CoordBound..CoordBound on each axis.
CoordBound == 3

\* A grid of the model is GridSize cells wide and GridSize cells high.
GridSize == 2

\* A consumer-supplied coordinate sequence has at most MaxLen coordinates.
MaxLen == 2

\* A life board of the model is 3 cells wide, as the board of the end-to-end
\* scenario, and LifeRows cells high.
LifeRows == 3

\* A cap on the number of coordinates one iterator may hand out.  No line
\* between two coordinates of the model is longer than 2*CoordBound + 1, so
\* the cap never binds for the iterators of the source (see CapNeverBinds).
MaxPolls == 4 * CoordBound + 4 * GridSize + 4

(***************************************************************************)
(* Coord: a pair of signed integers with component-wise + and -.           *)
(***************************************************************************)
Coord(x, y) == [x |-> x, y |-> y]

CoordAdd(a, b) == Coord(a.x + b.x, a.y + b.y)

CoordSub(a, b) == Coord(a.x - b.x, a.y - b.y)

Coords == [x : -CoordBound..CoordBound, y : -CoordBound..CoordBound]

\* i32::abs and i32::signum as line() uses them.
Abs(n) == IF n < 0 THEN -n ELSE n

Signum(n) == IF n > 0 THEN 1 ELSE IF n < 0 THEN -1 ELSE 0

(***************************************************************************)
(* Option<Coord>, the item type of the iterators.                          *)
(***************************************************************************)
None == [some |-> FALSE]

Some(c) == [some |-> TRUE, val |-> c]

(***************************************************************************)
(* line(from, to) and LineIter.                                            *)
(*                                                                         *)
(* `fault` is an f32 in the source, initialised to major_fault / 2.0 and   *)
(* changed only by adding and subtracting integers, so it is always a      *)
(* multiple of one half.  The model stores it in half units (twice its     *)
(* value), which f32 represents exactly far beyond the model's range.      *)
(***************************************************************************)
\* Variant: ties between the deltas go to the x axis.
XIsMajorTiesToX(delta) == Abs(delta.x) >= Abs(delta.y)

\* Variant: the axis with the smaller delta is taken as major.
XIsMajorSwapped(delta) == Abs(delta.x) < Abs(delta.y)

XIsMajor(delta) == Abs(delta.x) > Abs(delta.y)

\* Variant: the fault starts at zero instead of half the major delta.
InitialFaultZero(major_fault) == 0

\* major_fault as f32 / 2.0, in half units.
InitialFault(major_fault) == major_fault

Line(f, t) ==
    LET delta      == CoordSub(t, f)
        x_step     == Coord(Signum(delta.x), 0)
        y_step     == Coord(0, Signum(delta.y))
        x_is_major == XIsMajor(delta)
        major_step == IF x_is_major THEN x_step ELSE y_step
        minor_step == IF x_is_major THEN y_step ELSE x_step
        major_fault == IF x_is_major THEN Abs(delta.x) ELSE Abs(delta.y)
        minor_fault == IF x_is_major THEN Abs(delta.y) ELSE Abs(delta.x)
    IN  [ kind        |-> "line",
          end_coord   |-> t,
          next_coord  |-> f,
          major_step  |-> major_step,
          minor_step  |-> minor_step,
          fault       |-> InitialFault(major_fault),
          major_fault |-> major_fault,
          minor_fault |-> minor_fault,
          is_finished |-> FALSE ]

\* Variant: <= in place of <.
FaultFellOrZero(fault) == fault <= 0

\* self.fault < 0.0
FaultFell(fault) == fault < 0

\* Variant: the end test is missing.
AtEndNever(self) == FALSE

\* self.next_coord == self.end_coord
AtEnd(self) == self.next_coord = self.end_coord

\* Variant: the is_finished test is missing.
IsFinishedIgnored(self) == FALSE

\* if self.is_finished { return None; }
IsFinished(self) == self.is_finished

\* Variant: the minor step and the fault reset are missing.
LineAdvanceNoMinor(self) ==
    [self EXCEPT !.next_coord = CoordAdd(self.next_coord, self.major_step),
                 !.fault = self.fault - 2 * self.minor_fault]

\* Variant: the reset adds minor_fault instead of major_fault.
LineAdvanceResetByMinor(self) ==
    LET stepped == CoordAdd(self.next_coord, self.major_step)
        fault   == self.fault - 2 * self.minor_fault
    IN  IF fault < 0
        THEN [self EXCEPT !.next_coord = CoordAdd(stepped, self.minor_step),
                          !.fault = fault + 2 * self.minor_fault]
        ELSE [self EXCEPT !.next_coord = stepped,
                          !.fault = fault]

\* The body of next() below the two early returns: the major step, the fault
\* update and the minor step.  Yields the iterator after the call.
LineAdvance(self) ==
    LET stepped == CoordAdd(self.next_coord, self.major_step)
        fault   == self.fault - 2 * self.minor_fault
    IN  IF FaultFell(fault)
        THEN [self EXCEPT !.next_coord = CoordAdd(stepped, self.minor_step),
                          !.fault = fault + 2 * self.major_fault]
        ELSE [self EXCEPT !.next_coord = stepped,
                          !.fault = fault]

\* Variant: the coordinate computed in this call is returned.
LineReturnsNewCoord(self) == LineAdvance(self).next_coord

\* let return_coord = self.next_coord; ... Some(return_coord)
LineReturnCoord(self) == self.next_coord

\* LineIter::next: the iterator after the call and the value returned.
LineIterNext(self) ==
    IF IsFinished(self)
    THEN [iter |-> self, ret |-> None]
    ELSE IF AtEnd(self)
    THEN [iter |-> [self EXCEPT !.is_finished = TRUE],
          ret  |-> Some(self.end_coord)]
    ELSE [iter |-> LineAdvance(self),
          ret  |-> Some(LineReturnCoord(self))]

(***************************************************************************)
(* neighborhood, ortho_neighborhood and diag_neighborhood: an array of     *)
(* offsets, iterated in order and mapped by `coord + offset`.  `idx` is    *)
(* the number of array elements consumed.                                  *)
(***************************************************************************)
\* Variant: the same offsets, enumerated counter-clockwise.
NeighborhoodOffsetsCounterClockwise ==
    << Coord(0, 1), Coord(-1, 1), Coord(-1, 0), Coord(-1, -1),
       Coord(0, -1), Coord(1, -1), Coord(1, 0), Coord(1, 1) >>

NeighborhoodOffsets ==
    << Coord(0, 1), Coord(1, 1), Coord(1, 0), Coord(1, -1),
       Coord(0, -1), Coord(-1, -1), Coord(-1, 0), Coord(-1, 1) >>

\* Variant: N, S, E, W.
OrthoOffsetsVerticalFirst ==
    << Coord(0, 1), Coord(0, -1), Coord(1, 0), Coord(-1, 0) >>

OrthoOffsets ==
    << Coord(0, 1), Coord(1, 0), Coord(0, -1), Coord(-1, 0) >>

\* Variant: (1, 0) in place of (1, -1).
DiagOffsetsWithEast ==
    << Coord(1, 1), Coord(1, 0), Coord(-1, -1), Coord(-1, 1) >>

DiagOffsets ==
    << Coord(1, 1), Coord(1, -1), Coord(-1, -1), Coord(-1, 1) >>

OffsetsIter(kind, offsets, coord) ==
    [kind |-> kind, offsets |-> offsets, idx |-> 0, coord |-> coord]

Neighborhood(coord) == OffsetsIter("neighborhood", NeighborhoodOffsets, coord)

OrthoNeighborhood(coord) ==
    OffsetsIter("ortho_neighborhood", OrthoOffsets, coord)

DiagNeighborhood(coord) ==
    OffsetsIter("diag_neighborhood", DiagOffsets, coord)

OffsetKinds == {"neighborhood", "ortho_neighborhood", "diag_neighborhood"}

\* .iter().map(move |&offset| coord + offset.into()): one call of next().
OffsetsIterNext(self) ==
    IF self.idx < Len(self.offsets)
    THEN [iter |-> [self EXCEPT !.idx = self.idx + 1],
          ret  |-> Some(CoordAdd(self.coord, self.offsets[self.idx + 1]))]
    ELSE [iter |-> self, ret |-> None]

(***************************************************************************)
(* A consumer-supplied coordinate sequence: any iterator of Coord may be   *)
(* handed to a selection.                                                  *)
(***************************************************************************)
VecIter(items) == [kind |-> "vec", items |-> items, idx |-> 0]

VecIterNext(self) ==
    IF self.idx < Len(self.items)
    THEN [iter |-> [self EXCEPT !.idx = self.idx + 1],
          ret  |-> Some(self.items[self.idx + 1])]
    ELSE [iter |-> self, ret |-> None]

\* next() of whichever iterator `self` is.
PatternNext(self) ==
    CASE self.kind = "line" -> LineIterNext(self)
      [] self.kind \in OffsetKinds -> OffsetsIterNext(self)
      [] self.kind = "vec" -> VecIterNext(self)

(***************************************************************************)
(* The grid and its selection iterator.  A grid of dimensions (w, h) holds *)
(* one cell for every coordinate with 0 <= x < w and 0 <= y < h.           *)
(***************************************************************************)
LifeState == {"Dead", "Alive"}

RectCoords(dimensions) ==
    [x : 0..(dimensions.x - 1), y : 0..(dimensions.y - 1)]

InBounds(g, coord) == coord \in RectCoords(g.dimensions)

\* The per-coordinate generator functions grids are built with.
Generators == {"dead", "alive", "checker", "columns"}

Generate(gen, coord) ==
    CASE gen = "dead" -> "Dead"
      [] gen = "alive" -> "Alive"
      [] gen = "checker" ->
            IF (coord.x + coord.y) % 2 = 0 THEN "Alive" ELSE "Dead"
      [] gen = "columns" -> IF coord.x % 2 = 0 THEN "Alive" ELSE "Dead"

\* VecGrid::with_generator(Rect::new(dimensions), generator)
WithGenerator(dimensions, gen) ==
    [dimensions |-> dimensions,
     cells |-> [c \in RectCoords(dimensions) |-> Generate(gen, c)]]

\* The grid of the specifications that use none.
NoGrid == [dimensions |-> Coord(0, 0), cells |-> << >>]

\* No LifeBoard::step is under way.
NoStep ==
    /\ order = << >>
    /\ neighbor_counts = << >>
    /\ written = 0
    /\ old = NoGrid

Ok(coord, cell) == [ok |-> TRUE, coord |-> coord, cell |-> cell]

Err(coord) == [ok |-> FALSE, coord |-> coord, err |-> "BoundsError"]

\* grid.get(coord), paired with the coordinate.
SelectionResult(g, coord) ==
    IF InBounds(g, coord) THEN Ok(coord, g.cells[coord]) ELSE Err(coord)

\* Variant: the first out-of-bounds coordinate ends the selection.
SelectionItemStopsAtFailure(g, item) ==
    IF item.some /\ InBounds(g, item.val)
    THEN [some |-> TRUE, val |-> SelectionResult(g, item.val)]
    ELSE None

\* What the selection iterator returns for the item its coordinate iterator
\* returned: None at the end, else Some(result for that coordinate).
SelectionItem(g, item) ==
    IF item.some THEN [some |-> TRUE, val |-> SelectionResult(g, item.val)]
                 ELSE None

(***************************************************************************)
(* The consumer of a line: one call of next().                             *)
(***************************************************************************)
InitLine ==
    \E f \in Coords, t \in Coords :
        /\ from = f
        /\ iter = Line(f, t)
        /\ ret = None
        /\ emitted = << >>
        /\ pc = "new"
        /\ grid = NoGrid
        /\ results = << >>
        /\ NoStep

LinePoll ==
    /\ iter.kind = "line"
    /\ Len(emitted) < MaxPolls
    /\ LET r == LineIterNext(iter)
       IN  /\ iter' = r.iter
           /\ ret' = r.ret
           /\ emitted' = IF r.ret.some THEN Append(emitted, r.ret.val)
                                       ELSE emitted
    /\ pc' = "polled"
    /\ UNCHANGED <<from, grid, results>>
    /\ UNCHANGED lifeVars

NextLine == LinePoll

Spec == InitLine /\ [][NextLine]_vars

\* The consumer keeps polling: `for c in line(a, b)` calls next() until None.
FairSpec == Spec /\ WF_vars(LinePoll)

(***************************************************************************)
(* The consumer of a neighborhood: one call of next().                     *)
(***************************************************************************)
InitNeighborhood ==
    \E coord \in Coords :
        /\ from = coord
        /\ iter \in {Neighborhood(coord), OrthoNeighborhood(coord),
                     DiagNeighborhood(coord)}
        /\ ret = None
        /\ emitted = << >>
        /\ pc = "new"
        /\ grid = NoGrid
        /\ results = << >>
        /\ NoStep

NeighborhoodPoll ==
    /\ iter.kind \in OffsetKinds
    /\ Len(emitted) < MaxPolls
    /\ LET r == OffsetsIterNext(iter)
       IN  /\ iter' = r.iter
           /\ ret' = r.ret
           /\ emitted' = IF r.ret.some THEN Append(emitted, r.ret.val)
                                       ELSE emitted
    /\ pc' = "polled"
    /\ UNCHANGED <<from, grid, results>>
    /\ UNCHANGED lifeVars

NextNeighborhood == NeighborhoodPoll

SpecNeighborhood == InitNeighborhood /\ [][NextNeighborhood]_vars

(***************************************************************************)
(* The consumer of a selection: grid.selection_iter(pattern), then one     *)
(* call of next() on the selection iterator.  `emitted` holds the          *)
(* coordinates the selection has pulled from its pattern.                  *)
(***************************************************************************)
\* Coordinates in and just around a grid of the model.
ProbeCoords == [x : -1..GridSize, y : -1..GridSize]

RECURSIVE SeqsUpTo(_, _)
SeqsUpTo(S, n) ==
    IF n = 0 THEN {<< >>}
    ELSE LET shorter == SeqsUpTo(S, n - 1)
         IN  shorter \cup {Append(s, e) : s \in shorter, e \in S}

SelectionInputs ==
    {Neighborhood(c) : c \in ProbeCoords}
        \cup {OrthoNeighborhood(c) : c \in ProbeCoords}
        \cup {DiagNeighborhood(c) : c \in ProbeCoords}
        \cup {Line(a, b) : a \in ProbeCoords, b \in ProbeCoords}
        \cup {VecIter(s) : s \in SeqsUpTo(ProbeCoords, MaxLen)}

InitSelection ==
    \E gen \in Generators, pattern \in SelectionInputs :
        /\ from = Coord(0, 0)
        /\ iter = pattern
        /\ ret = None
        /\ emitted = << >>
        /\ pc = "new"
        /\ grid = WithGenerator(Coord(GridSize, GridSize), gen)
        /\ results = << >>
        /\ NoStep

\* Variant: a mutable selection that resets every cell it yields.
SelectionPollResets ==
    /\ Len(emitted) < MaxPolls
    /\ LET r    == PatternNext(iter)
           item == SelectionItem(grid, r.ret)
       IN  /\ iter' = r.iter
           /\ emitted' = IF r.ret.some THEN Append(emitted, r.ret.val)
                                       ELSE emitted
           /\ ret' = item
           /\ results' = IF item.some THEN Append(results, item.val)
                                      ELSE results
           /\ grid' = IF item.some /\ item.val.ok
                      THEN [grid EXCEPT !.cells[item.val.coord] = "Dead"]
                      ELSE grid
    /\ pc' = "polled"
    /\ UNCHANGED from
    /\ UNCHANGED lifeVars

SelectionPoll ==
    /\ Len(emitted) < MaxPolls
    /\ LET r    == PatternNext(iter)
           item == SelectionItem(grid, r.ret)
       IN  /\ iter' = r.iter
           /\ emitted' = IF r.ret.some THEN Append(emitted, r.ret.val)
                                       ELSE emitted
           /\ ret' = item
           /\ results' = IF item.some THEN Append(results, item.val)
                                      ELSE results
    /\ pc' = "polled"
    /\ UNCHANGED <<from, grid>>
    /\ UNCHANGED lifeVars

NextSelection == SelectionPoll

SpecSelection == InitSelection /\ [][NextSelection]_vars

(***************************************************************************)
(* Helpers of the properties.                                              *)
(***************************************************************************)
Max(a, b) == IF a >= b THEN a ELSE b

Min(a, b) == IF a <= b THEN a ELSE b

Reverse(s) == [i \in 1..Len(s) |-> s[Len(s) + 1 - i]]

Occurrences(s, e) == Cardinality({i \in 1..Len(s) : s[i] = e})

\* The to argument of the line being traced, and its deltas.
To == iter.end_coord

AbsDx == Abs(To.x - from.x)

AbsDy == Abs(To.y - from.y)

\* The coordinates an iterator hands out when polled until it returns None.
RECURSIVE Drain(_, _)
Drain(self, fuel) ==
    IF fuel = 0 THEN << >>
    ELSE LET r == PatternNext(self)
         IN  IF r.ret.some THEN <<r.ret.val>> \o Drain(r.iter, fuel - 1)
                           ELSE << >>

PatternSeq(pattern) == Drain(pattern, MaxPolls)

LineSeq(a, b) == PatternSeq(Line(a, b))

Range(s) == {s[i] : i \in 1..Len(s)}

\* next() has returned None: the consumer has polled to exhaustion.
Exhausted == pc = "polled" /\ ret = None

\* The cap on polls is never what stops a line of the source.
CapNeverBinds == Len(emitted) < MaxPolls

(***************************************************************************)
(* C1.  line(a, b) polled to exhaustion emits exactly                      *)
(* max(|a.x-b.x|, |a.y-b.y|) + 1 coordinates, the first is a, the last is  *)
(* b, and consecutive coordinates are one unit step apart: they differ,    *)
(* and by at most 1 in either component.                                   *)
(***************************************************************************)
C1_LineShape ==
    LET n == Max(AbsDx, AbsDy) + 1
    IN  /\ Len(emitted) <= n
        /\ Len(emitted) >= 1 => emitted[1] = from
        /\ \A i \in 1..(Len(emitted) - 1) :
              /\ emitted[i] # emitted[i + 1]
              /\ Abs(emitted[i + 1].x - emitted[i].x) <= 1
              /\ Abs(emitted[i + 1].y - emitted[i].y) <= 1
        /\ (pc = "polled" /\ ret = None) => iter.is_finished
        /\ iter.is_finished => /\ Len(emitted) = n
                               /\ emitted[n] = To

\* A line that is neither axis-aligned nor diagonal, polled until None.
C1_Witness ==
    /\ from = Coord(-2, 1)
    /\ To = Coord(2, -1)
    /\ pc = "polled"
    /\ ret = None
    /\ Len(emitted) = 5

(***************************************************************************)
(* C2.  The fault starts at half the major delta magnitude and loses the   *)
(* minor delta magnitude on every iteration; the iterator takes a minor    *)
(* step on exactly the iterations where the fault has become strictly      *)
(* negative, and then adds the major delta magnitude to it; a fault of     *)
(* exactly zero causes no minor step.  line((0,0),(3,1)) emits             *)
(* [(0,0), (1,0), (2,1), (3,1)].                                           *)
(***************************************************************************)
C2_FaultStart ==
    pc = "new" =>
        /\ iter.major_fault = Max(AbsDx, AbsDy)
        /\ iter.minor_fault = Min(AbsDx, AbsDy)
        /\ iter.fault = iter.major_fault      \* half units: major_fault / 2

C2_Iteration ==
    (~iter.is_finished /\ iter.next_coord # iter.end_coord) =>
        LET fault   == iter.fault - 2 * iter.minor_fault
            stepped == CoordAdd(iter.next_coord, iter.major_step)
        IN  /\ fault < 0 =>
                /\ iter.minor_step # Coord(0, 0)
                /\ iter'.next_coord = CoordAdd(stepped, iter.minor_step)
                /\ iter'.fault = fault + 2 * iter.major_fault
            /\ fault >= 0 =>
                /\ iter'.next_coord = stepped
                /\ iter'.fault = fault
            /\ iter.major_step # Coord(0, 0)

C2_Example ==
    (from = Coord(0, 0) /\ To = Coord(3, 1) /\ iter.is_finished) =>
        emitted = <<Coord(0, 0), Coord(1, 0), Coord(2, 1), Coord(3, 1)>>

C2_StrictFaultRule ==
    /\ [](C2_FaultStart /\ C2_Example)
    /\ [][C2_Iteration]_vars

\* line((0,0),(2,1)) after its first iteration: the fault is exactly zero
\* and the cursor has moved along the major axis only.
C2_Witness ==
    /\ from = Coord(0, 0)
    /\ To = Coord(2, 1)
    /\ emitted = <<Coord(0, 0)>>
    /\ iter.fault = 0
    /\ iter.next_coord = Coord(1, 0)

(***************************************************************************)
(* C3.  Once the line iterator has emitted `to` it is exhausted: `to` is   *)
(* emitted exactly once, and every later next() returns None and leaves    *)
(* the iterator unchanged, however often it is polled.                     *)
(***************************************************************************)
C3_ToOnce ==
    /\ Occurrences(emitted, To) <= 1
    /\ iter.is_finished <=> Occurrences(emitted, To) = 1

C3_AfterTo ==
    iter.is_finished => /\ iter' = iter
                        /\ ret' = None
                        /\ emitted' = emitted

C3_ExhaustedStaysExhausted ==
    /\ []C3_ToOnce
    /\ [][C3_AfterTo]_vars

\* Polled again after `to` came out.
C3_Witness ==
    /\ iter.is_finished
    /\ pc = "polled"
    /\ ret = None
    /\ Len(emitted) = 3
    /\ emitted[3] = To

(***************************************************************************)
(* C4.  A line iterator that keeps being polled eventually becomes         *)
(* exhausted: the cursor stays between `from` and `to`, never steps past   *)
(* `to`, and is_finished becomes true.                                     *)
(***************************************************************************)
C4_CursorInside ==
    /\ Min(from.x, To.x) <= iter.next_coord.x
    /\ iter.next_coord.x <= Max(from.x, To.x)
    /\ Min(from.y, To.y) <= iter.next_coord.y
    /\ iter.next_coord.y <= Max(from.y, To.y)
    /\ iter.is_finished => iter.next_coord = To

C4_Terminates ==
    /\ []C4_CursorInside
    /\ <>(iter.is_finished)

\* The longest line of the model has been traced to its end.
C4_Witness ==
    /\ iter.is_finished
    /\ iter.next_coord = To
    /\ Len(emitted) = 2 * CoordBound + 1
    /\ AbsDx # AbsDy

(***************************************************************************)
(* C5.  line(a, a) emits exactly [a] and is then exhausted.                *)
(***************************************************************************)
C5_ZeroLength ==
    from = To =>
        \/ pc = "new" /\ emitted = << >> /\ ~iter.is_finished
        \/ pc = "polled" /\ emitted = <<from>> /\ iter.is_finished

C5_Witness ==
    /\ from = To
    /\ from = Coord(-1, 2)
    /\ pc = "polled"
    /\ ret = None
    /\ emitted = <<from>>

(***************************************************************************)
(* C6.  When the segment is axis-aligned (dx = 0 or dy = 0) or diagonal    *)
(* (|dx| = |dy|), line(b, a) emits exactly the reverse of line(a, b).      *)
(***************************************************************************)
C6_ReversalOnAxisAndDiagonal ==
    (iter.is_finished /\ (AbsDx = 0 \/ AbsDy = 0 \/ AbsDx = AbsDy)) =>
        emitted = Reverse(LineSeq(To, from))

\* A diagonal of three steps, traced to its end.
C6_Witness ==
    /\ iter.is_finished
    /\ AbsDx = 3
    /\ AbsDy = 3
    /\ Len(emitted) = 4
    /\ LineSeq(To, from)[1] = To

(***************************************************************************)
(* C7.  neighborhood(o) emits exactly 8 coordinates, each at Chebyshev     *)
(* distance 1 from o, without duplicates, in the order N, NE, E, SE, S,    *)
(* SW, W, NW: o plus (0,1), (1,1), (1,0), (1,-1), (0,-1), (-1,-1),         *)
(* (-1,0), (-1,1), for every origin o, negative ones included.             *)
(***************************************************************************)
C7_Expected ==
    << Coord(from.x, from.y + 1),     Coord(from.x + 1, from.y + 1),
       Coord(from.x + 1, from.y),     Coord(from.x + 1, from.y - 1),
       Coord(from.x, from.y - 1),     Coord(from.x - 1, from.y - 1),
       Coord(from.x - 1, from.y),     Coord(from.x - 1, from.y + 1) >>

C7_MooreNeighborhood ==
    iter.kind = "neighborhood" =>
        /\ Len(emitted) <= 8
        /\ emitted = SubSeq(C7_Expected, 1, Len(emitted))
        /\ \A i \in 1..Len(emitted) :
              Max(Abs(emitted[i].x - from.x), Abs(emitted[i].y - from.y)) = 1
        /\ Cardinality(Range(emitted)) = Len(emitted)
        /\ Exhausted => Len(emitted) = 8

\* The neighborhood of an origin with negative components, polled to None.
C7_Witness ==
    /\ iter.kind = "neighborhood"
    /\ from = Coord(-CoordBound, -1)
    /\ Exhausted
    /\ Len(emitted) = 8

(***************************************************************************)
(* C8.  For every origin o the coordinates of ortho_neighborhood(o) and    *)
(* those of diag_neighborhood(o) together are the coordinates of           *)
(* neighborhood(o), and the two have no coordinate in common.              *)
(***************************************************************************)
C8_OrthoDiagPartition ==
    Exhausted =>
        LET full  == IF iter.kind = "neighborhood" THEN Range(emitted)
                     ELSE Range(PatternSeq(Neighborhood(from)))
            ortho == IF iter.kind = "ortho_neighborhood" THEN Range(emitted)
                     ELSE Range(PatternSeq(OrthoNeighborhood(from)))
            diag  == IF iter.kind = "diag_neighborhood" THEN Range(emitted)
                     ELSE Range(PatternSeq(DiagNeighborhood(from)))
        IN  /\ ortho \cup diag = full
            /\ ortho \cap diag = {}

C8_Witness ==
    /\ iter.kind = "diag_neighborhood"
    /\ from = Coord(1, -2)
    /\ Exhausted
    /\ Coord(2, -1) \in Range(emitted)

(***************************************************************************)
(* C9.  ortho_neighborhood(o) emits exactly 4 coordinates in the order     *)
(* N, E, S, W (offsets (0,1), (1,0), (0,-1), (-1,0)); diag_neighborhood(o) *)
(* emits exactly 4 in the order NE, SE, SW, NW (offsets (1,1), (1,-1),     *)
(* (-1,-1), (-1,1)); they are the elements of neighborhood(o) at positions *)
(* 0, 2, 4, 6 and 1, 3, 5, 7, in that order.                               *)
(***************************************************************************)
C9_OrthoExpected ==
    << Coord(from.x, from.y + 1), Coord(from.x + 1, from.y),
       Coord(from.x, from.y - 1), Coord(from.x - 1, from.y) >>

C9_DiagExpected ==
    << Coord(from.x + 1, from.y + 1), Coord(from.x + 1, from.y - 1),
       Coord(from.x - 1, from.y - 1), Coord(from.x - 1, from.y + 1) >>

C9_OrthoDiagOrder ==
    LET full == PatternSeq(Neighborhood(from))
    IN  /\ iter.kind = "ortho_neighborhood" =>
              /\ Len(emitted) <= 4
              /\ emitted = SubSeq(C9_OrthoExpected, 1, Len(emitted))
              /\ \A i \in 1..Len(emitted) : emitted[i] = full[2 * i - 1]
              /\ Exhausted => Len(emitted) = 4
        /\ iter.kind = "diag_neighborhood" =>
              /\ Len(emitted) <= 4
              /\ emitted = SubSeq(C9_DiagExpected, 1, Len(emitted))
              /\ \A i \in 1..Len(emitted) : emitted[i] = full[2 * i]
              /\ Exhausted => Len(emitted) = 4

C9_Witness ==
    /\ iter.kind = "ortho_neighborhood"
    /\ from = Coord(-2, 3)
    /\ Exhausted
    /\ emitted[4] = Coord(-3, 3)

(***************************************************************************)
(* C10.  Selection iteration over a grid yields exactly one result per     *)
(* input coordinate, in input order: the coordinate with the cell stored   *)
(* at it when it is in bounds, a bounds failure for that entry when it is  *)
(* not; a failure neither ends the sequence early nor changes the results  *)
(* of the other entries.                                                   *)
(***************************************************************************)
C10_ExpectedResult(coord) ==
    IF /\ 0 <= coord.x /\ coord.x < grid.dimensions.x
       /\ 0 <= coord.y /\ coord.y < grid.dimensions.y
    THEN [ok |-> TRUE, coord |-> coord, cell |-> grid.cells[coord]]
    ELSE [ok |-> FALSE, coord |-> coord, err |-> "BoundsError"]

C10_OneResultPerCoordinate ==
    /\ Len(results) = Len(emitted)
    /\ \A i \in 1..Len(results) : results[i] = C10_ExpectedResult(emitted[i])
    /\ Exhausted => PatternSeq(iter) = << >>
    /\ (pc = "polled" /\ ret # None) =>
          /\ Len(results) >= 1
          /\ ret = [some |-> TRUE, val |-> results[Len(results)]]

\* A neighborhood at a corner of the grid, polled to None: failures come
\* before and after the successes, and all eight results are there.
C10_Witness ==
    /\ iter.kind = "neighborhood"
    /\ Exhausted
    /\ Len(results) = 8
    /\ ~results[1].ok
    /\ results[5].ok
    /\ results[5].cell = "Alive"
    /\ ~results[8].ok

(***************************************************************************)
(* Helpers of the line properties C14 and C16 to C18.                      *)
(***************************************************************************)
\* The deltas of the line being traced, larger and smaller magnitude.
MajorDelta == Max(AbsDx, AbsDy)

MinorDelta == Min(AbsDx, AbsDy)

XStep == Coord(Signum(To.x - from.x), 0)

YStep == Coord(0, Signum(To.y - from.y))

\* The smallest integer >= p / q, for q > 0.
CeilDiv(p, q) == -((-p) \div q)

Scale(k, c) == Coord(k * c.x, k * c.y)

\* The values `fault` holds after each call of next() on `self`, until None.
RECURSIVE DrainFaults(_, _)
DrainFaults(self, fuel) ==
    IF fuel = 0 THEN << >>
    ELSE LET r == LineIterNext(self)
         IN  IF r.ret.some THEN <<r.iter.fault>> \o DrainFaults(r.iter, fuel - 1)
                           ELSE << >>

LineFaults(a, b) == DrainFaults(Line(a, b), MaxPolls)

(***************************************************************************)
(* C14.  As claimed: when |dx| = |dy| the x axis is the major axis, the    *)
(* step of every iteration is the x step and the fault-triggered minor     *)
(* step is the y step.  The source compares with a strict >, so a tie      *)
(* makes y the major axis: C14_TiesToX states the claim and fails,         *)
(* C14_TiesToY states what the source does.                                *)
(***************************************************************************)
C14_TiesToX ==
    AbsDx = AbsDy => /\ iter.major_step = XStep
                     /\ iter.minor_step = YStep

\* C14 as amended: when |dx| = |dy| the y axis is the major axis: the step
\* of every iteration is the y step, the fault-triggered minor step is the
\* x step, and both fault amounts are the common magnitude.
C14_TiesToY ==
    AbsDx = AbsDy => /\ iter.major_step = YStep
                     /\ iter.minor_step = XStep
                     /\ iter.major_fault = AbsDy
                     /\ iter.minor_fault = AbsDx

\* A diagonal of two steps after its first iteration.
C14_Witness ==
    /\ from = Coord(1, -1)
    /\ To = Coord(-1, 1)
    /\ emitted = <<from>>
    /\ iter.next_coord = Coord(0, 0)
    /\ iter.major_step = Coord(0, 1)

(***************************************************************************)
(* C16.  With N the major and m the minor delta magnitude, the i-th        *)
(* coordinate line(a, b) emits (i = 0..N) is a moved by i unit steps along *)
(* the major axis and by k_i unit steps along the minor axis, where k_i is *)
(* i*m/N rounded to the nearest integer, exact halves rounded down:        *)
(* k_i = ceil((2*i*m - N) / (2*N)) for N > 0.                              *)
(***************************************************************************)
C16_MinorSteps(i) ==
    IF MajorDelta = 0 THEN 0
    ELSE CeilDiv(2 * i * MinorDelta - MajorDelta, 2 * MajorDelta)

C16_Coordinate(i) ==
    LET major == IF AbsDx >= AbsDy THEN XStep ELSE YStep
        minor == IF AbsDx >= AbsDy THEN YStep ELSE XStep
    IN  CoordAdd(from, CoordAdd(Scale(i, major),
                                Scale(C16_MinorSteps(i), minor)))

C16_ClosedForm ==
    /\ \A j \in 1..Len(emitted) : emitted[j] = C16_Coordinate(j - 1)
    /\ iter.is_finished => Len(emitted) = MajorDelta + 1

\* A line whose second and third coordinates sit at exact halves (i*m/N =
\* 1/2 and 3/2): both are rounded down.
C16_Witness ==
    /\ from = Coord(-2, -1)
    /\ To = Coord(2, 1)
    /\ iter.is_finished
    /\ emitted[2] = Coord(-1, -1)
    /\ emitted[4] = Coord(1, 0)

(***************************************************************************)
(* C17.  When the major delta magnitude max(|dx|, |dy|) is odd, line(b, a) *)
(* emits exactly the reverse of line(a, b).  Reversal fails only when the  *)
(* fault reaches exactly zero, as for line((0,0),(2,1)) =                  *)
(* [(0,0),(1,0),(2,1)] against line((2,1),(0,0)) = [(2,1),(1,1),(0,0)].    *)
(***************************************************************************)
C17_Reverses == emitted = Reverse(LineSeq(To, from))

C17_ReversalWhenOddMajor ==
    iter.is_finished =>
        /\ MajorDelta % 2 = 1 => C17_Reverses
        /\ ~C17_Reverses => 0 \in Range(LineFaults(from, To))
        /\ (from = Coord(0, 0) /\ To = Coord(2, 1)) =>
              /\ emitted = <<Coord(0, 0), Coord(1, 0), Coord(2, 1)>>
              /\ LineSeq(To, from)
                    = <<Coord(2, 1), Coord(1, 1), Coord(0, 0)>>

\* A line of odd major delta that is neither axis-aligned nor diagonal.
C17_Witness ==
    /\ iter.is_finished
    /\ AbsDx = 2
    /\ AbsDy = 5
    /\ Len(emitted) = 6
    /\ C17_Reverses

(***************************************************************************)
(* C18.  For a line iterator with non-zero major delta, after each         *)
(* completed next() call 0 <= fault < major_fault, and the number of minor *)
(* steps taken so far never exceeds minor_fault.                           *)
(***************************************************************************)
\* The distance the cursor has moved along the minor axis.
C18_MinorStepsTaken ==
    IF iter.major_step.x # 0 THEN Abs(iter.next_coord.y - from.y)
                             ELSE Abs(iter.next_coord.x - from.x)

C18_FaultRange ==
    (iter.major_fault # 0 /\ pc = "polled") =>
        /\ 0 <= iter.fault
        /\ iter.fault < 2 * iter.major_fault    \* half units
        /\ C18_MinorStepsTaken <= iter.minor_fault

\* Right after a reset of the fault: 2.5 - 3 + 5 = 4.5, in half units 9.
C18_Witness ==
    /\ AbsDx = 5
    /\ AbsDy = 3
    /\ pc = "polled"
    /\ Len(emitted) = 1
    /\ iter.fault = 9
    /\ C18_MinorStepsTaken = 1

(***************************************************************************)
(* LifeBoard (src/examples/life.rs).                                       *)
(*                                                                         *)
(* live_neighbor_count runs an immutable selection over the neighborhood   *)
(* of a cell and counts the successful results whose cell is Alive.        *)
(* life.rs writes the pattern as Neighborhood::new(coord).iter(); the      *)
(* pattern of patterns.rs with that meaning is neighborhood(coord).        *)
(*                                                                         *)
(* step() is modelled at the grain of its two loops: one action per count  *)
(* collected, one per cell written.  pc is "idle" outside step(),          *)
(* "counting" in the first loop and "writing" in the second.               *)
(***************************************************************************)
\* The boards of the model: with LifeRows = 3, the 3 x 3 board of the
\* end-to-end scenario.
LifeDimensions == Coord(3, LifeRows)

LifeGrids ==
    {[dimensions |-> LifeDimensions, cells |-> f] :
        f \in [RectCoords(LifeDimensions) -> LifeState]}

\* grid.iter() and grid.iter_mut() visit the cells in one order, which the
\* grid does not specify: by rows, by columns, or by rows backwards.
RowMajor(d) == [i \in 1..(d.x * d.y) |-> Coord((i - 1) % d.x, (i - 1) \div d.x)]

ColumnMajor(d) ==
    [i \in 1..(d.x * d.y) |-> Coord((i - 1) \div d.y, (i - 1) % d.y)]

GridOrders(d) == {RowMajor(d), ColumnMajor(d), Reverse(RowMajor(d))}

\* The results a selection over `self` yields when polled until None.
RECURSIVE DrainSelection(_, _, _)
DrainSelection(g, self, fuel) ==
    IF fuel = 0 THEN << >>
    ELSE LET r    == PatternNext(self)
             item == SelectionItem(g, r.ret)
         IN  IF item.some
             THEN <<item.val>> \o DrainSelection(g, r.iter, fuel - 1)
             ELSE << >>

\* grid.selection_iter(pattern), collected.
SelectionSeq(g, pattern) == DrainSelection(g, pattern, MaxPolls)

\* Variant: a failed result is counted as well.
IsLiveOrFailed(r_cell) == ~r_cell.ok \/ r_cell.cell = "Alive"

\* if let Ok(cell) = r_cell { *cell.1 == LifeState::Alive } else { false }
IsLive(r_cell) == r_cell.ok /\ r_cell.cell = "Alive"

\* LifeBoard::live_neighbor_count
LiveNeighborCount(g, coord) ==
    LET selected == SelectionSeq(g, Neighborhood(coord))
    IN  Cardinality({i \in 1..Len(selected) : IsLive(selected[i])})

\* Variant: an Alive cell survives with 3 neighbors only.
ComputeStateNoSurvivalOnTwo(state, neighbor_count) ==
    IF neighbor_count = 3 THEN "Alive" ELSE "Dead"

\* LifeBoard::compute_state
ComputeState(state, neighbor_count) ==
    CASE state = "Alive" ->
            IF neighbor_count = 2 \/ neighbor_count = 3 THEN "Alive"
                                                        ELSE "Dead"
      [] state = "Dead" ->
            IF neighbor_count = 3 THEN "Alive" ELSE "Dead"

\* Variant: one pass, the count taken from the grid as it is when the cell
\* is written.
StepWriteCellRecount(g, coord, counts, i) ==
    ComputeState(g.cells[coord], LiveNeighborCount(g, coord))

\* *cell = LifeBoard::compute_state(*cell, neighbor_count), for the i-th pair
\* of the zip.
StepWriteCell(g, coord, counts, i) == ComputeState(g.cells[coord], counts[i])

InitLife ==
    /\ from = Coord(0, 0)
    /\ iter = VecIter(<< >>)
    /\ ret = None
    /\ emitted = << >>
    /\ results = << >>
    /\ pc = "idle"
    /\ grid \in LifeGrids
    /\ order \in GridOrders(LifeDimensions)
    /\ neighbor_counts = << >>
    /\ written = 0
    /\ old = grid

\* step() is called: self.grid.iter() starts.
StepBegin ==
    /\ pc = "idle"
    /\ pc' = "counting"
    /\ old' = grid
    /\ neighbor_counts' = << >>
    /\ written' = 0
    /\ UNCHANGED <<from, iter, ret, emitted, results, grid, order>>

\* .map(|cell| self.live_neighbor_count(cell.0)): the next count.
StepCount ==
    /\ pc = "counting"
    /\ Len(neighbor_counts) < Len(order)
    /\ neighbor_counts' =
          Append(neighbor_counts,
                 LiveNeighborCount(grid, order[Len(neighbor_counts) + 1]))
    /\ UNCHANGED <<from, iter, ret, emitted, results, pc, grid, order,
                   written, old>>

\* .collect::<Vec<_>>() returns; self.grid.iter_mut().zip(..) starts.
StepCollect ==
    /\ pc = "counting"
    /\ Len(neighbor_counts) = Len(order)
    /\ pc' = "writing"
    /\ UNCHANGED <<from, iter, ret, emitted, results, grid, order,
                   neighbor_counts, written, old>>

\* One iteration of the for loop over the zip.
StepWrite ==
    /\ pc = "writing"
    /\ written < Len(order)
    /\ written < Len(neighbor_counts)
    /\ LET coord == order[written + 1]
       IN  grid' = [grid EXCEPT !.cells[coord] =
                       StepWriteCell(grid, coord, neighbor_counts, written + 1)]
    /\ written' = written + 1
    /\ UNCHANGED <<from, iter, ret, emitted, results, pc, order,
                   neighbor_counts, old>>

\* The zip is at its end: step() returns.
StepEnd ==
    /\ pc = "writing"
    /\ written = Len(order) \/ written = Len(neighbor_counts)
    /\ pc' = "idle"
    /\ UNCHANGED <<from, iter, ret, emitted, results, grid, order,
                   neighbor_counts, written, old>>

NextLife == StepBegin \/ StepCount \/ StepCollect \/ StepWrite \/ StepEnd

SpecLife == InitLife /\ [][NextLife]_vars

(***************************************************************************)
(* A consumer that may abandon a selection at any point and start another  *)
(* one.  pc = "dropped": the iterator has been dropped; `iter`, `emitted`  *)
(* and `results` still show how far it had come.  pc = "ready": that       *)
(* record is gone too and the next selection can be made.                  *)
(***************************************************************************)
BorrowPoll ==
    /\ pc \in {"new", "polled"}
    /\ SelectionPoll

\* The selection iterator, and the pattern inside it, go out of scope.
Abandon ==
    /\ pc \in {"new", "polled"}
    /\ pc' = "dropped"
    /\ UNCHANGED <<from, iter, ret, emitted, grid, results>>
    /\ UNCHANGED lifeVars

\* The consumer moves on: nothing of the dropped iterator is left.
Forget ==
    /\ pc = "dropped"
    /\ iter' = VecIter(<< >>)
    /\ ret' = None
    /\ emitted' = << >>
    /\ results' = << >>
    /\ pc' = "ready"
    /\ UNCHANGED <<from, grid>>
    /\ UNCHANGED lifeVars

\* A pattern is created and handed to grid.selection_iter.
Select ==
    /\ pc = "ready"
    /\ \E pattern \in SelectionInputs : iter' = pattern
    /\ ret' = None
    /\ emitted' = << >>
    /\ results' = << >>
    /\ pc' = "new"
    /\ UNCHANGED <<from, grid>>
    /\ UNCHANGED lifeVars

NextBorrow == BorrowPoll \/ Abandon \/ Forget \/ Select

SpecBorrow == InitSelection /\ [][NextBorrow]_vars

(***************************************************************************)
(* C11.  On a 3 x 3 grid whose center cell is alive and all others dead,   *)
(* the live-neighbor count is 0 for the center and exactly 1 for every     *)
(* other cell; out-of-bounds neighbors contribute nothing.                 *)
(***************************************************************************)
C11_CenterAlive ==
    [dimensions |-> Coord(3, 3),
     cells |-> [c \in RectCoords(Coord(3, 3)) |->
                    IF c = Coord(1, 1) THEN "Alive" ELSE "Dead"]]

C11_CenterAliveCounts ==
    (pc = "counting" /\ grid = C11_CenterAlive) =>
        \A i \in 1..Len(neighbor_counts) :
            neighbor_counts[i] = IF order[i] = Coord(1, 1) THEN 0 ELSE 1

\* All nine counts of the scenario have been collected.
C11_Witness ==
    /\ pc = "counting"
    /\ grid = C11_CenterAlive
    /\ Len(neighbor_counts) = 9
    /\ order[1] = Coord(0, 0)
    /\ neighbor_counts[1] = 1

(***************************************************************************)
(* C12.  Creating a pattern iterator, running an immutable selection with  *)
(* it, and abandoning a pattern or selection iterator after any number of  *)
(* next() calls all leave every cell of the grid unchanged.                *)
(***************************************************************************)
C12_GridUnchanged == [][grid' = grid]_vars

\* A neighborhood selection abandoned after three of its eight results.
C12_Witness ==
    /\ pc = "dropped"
    /\ iter.kind = "neighborhood"
    /\ Len(results) = 3
    /\ results[3].ok
    /\ grid = WithGenerator(Coord(GridSize, GridSize), "checker")

(***************************************************************************)
(* C13.  step() is a two-phase update: every count is computed from the    *)
(* grid as it was before the step, no cell is written until all counts     *)
(* have been computed, and after the step the cell at c holds              *)
(* compute_state(old value at c, live-neighbor count of c in the pre-step  *)
(* grid).                                                                  *)
(***************************************************************************)
\* The Alive cells of g among the up to eight cells around coord.
C13_Count(g, coord) ==
    Cardinality({c \in RectCoords(g.dimensions) :
                    /\ c # coord
                    /\ Abs(c.x - coord.x) <= 1
                    /\ Abs(c.y - coord.y) <= 1
                    /\ g.cells[c] = "Alive"})

C13_TwoPhaseStep ==
    /\ \A i \in 1..Len(neighbor_counts) :
          neighbor_counts[i] = C13_Count(old, order[i])
    /\ pc = "counting" => grid = old
    /\ grid # old => Len(neighbor_counts) = Len(order)
    /\ \A i \in 1..Len(order) :
          grid.cells[order[i]] =
              IF i <= written
              THEN ComputeState(old.cells[order[i]], C13_Count(old, order[i]))
              ELSE old.cells[order[i]]
    /\ (pc = "idle" /\ grid # old) => written = Len(order)

\* A completed step of the blinker: the row of three has become a column.
C13_Witness ==
    /\ pc = "idle"
    /\ written = 9
    /\ \A c \in RectCoords(LifeDimensions) :
          /\ old.cells[c] = "Alive" <=> c.y = 1
          /\ grid.cells[c] = "Alive" <=> c.x = 1

(***************************************************************************)
(* C15.  compute_state implements Conway's rules for every state and every *)
(* count 0..8: an Alive cell stays Alive exactly when its count is 2 or 3, *)
(* a Dead cell becomes Alive exactly when its count is 3, every other case *)
(* yields Dead.                                                            *)
(***************************************************************************)
C15_Conway(state, neighbor_count) ==
    IF \/ state = "Alive" /\ neighbor_count \in {2, 3}
       \/ state = "Dead" /\ neighbor_count = 3
    THEN "Alive"
    ELSE "Dead"

C15_ConwayRules ==
    \A i \in 1..written :
        /\ neighbor_counts[i] \in 0..8
        /\ grid.cells[order[i]] =
              C15_Conway(old.cells[order[i]], neighbor_counts[i])

\* The center of a board that was all Alive has been written: 8 neighbors.
C15_Witness ==
    /\ pc = "writing"
    /\ written = 5
    /\ order[5] = Coord(1, 1)
    /\ neighbor_counts[5] = 8
    /\ old.cells[Coord(1, 1)] = "Alive"
    /\ grid.cells[Coord(1, 1)] = "Dead"

=============================================================================
